---- MODULE Spec2Model ----
(***************************************************************************)
(* The bookmarks contract (src/src/router.ts): three entity interfaces and  *)
(* the AppRouter type, a tree of query/mutate signatures.  The package has  *)
(* no handler code; what it does is decide, under tsc, which call-site      *)
(* arguments and which handler results type-check.  The model is that       *)
(* decision: a value is a record from field names to the kind of value each *)
(* field holds, a declared shape is a record from field names to            *)
(* (required?, admitted kinds), and a call goes                             *)
(*     idle -> called (argument checked against the declared input)         *)
(*          -> pending (the call is made) -> returned (the handler's result *)
(*             checked against the declared output) -> idle.                *)
(***************************************************************************)
EXTENDS Naturals, Sequences, FiniteSets, TLC

VARIABLES pc, path, hasArg, fresh, input, accepted, result, resultOk

vars == <<pc, path, hasArg, fresh, input, accepted, result, resultOk>>

(* Bounds of the explored values. *)
\* longest array a handler returns
MaxList == 1
\* fields of a returned value that depart from a fully populated row with
\* textual timestamps (a field left out, a field holding null, a native date)
MaxOdd == 2

(* tsconfig.json: "strict": true, hence strictNullChecks: null inhabits a   *)
(* type only where the declaration writes "| null".                         *)
strict == TRUE

(* ---------------------------------------------------------------------- *)
(* Declared types.                                                          *)
(* ---------------------------------------------------------------------- *)

\* f: T
Req(k) == [req |-> TRUE, kinds |-> k]
\* f?: T
Opt(k) == [req |-> FALSE, kinds |-> k]

TString == {"string"}
TNumber == {"number"}
TBoolean == {"boolean"}
TStringOrNull == {"string", "null"}
TStringOrDate == {"string", "date"}
TStringArray == {"strings"}

\* variant of Space whose createdAt admits only a textual timestamp
Space_createdAt_textual ==
  [id |-> Req(TString), userId |-> Req(TString), name |-> Req(TString),
   icon |-> Opt(TStringOrNull), color |-> Opt(TStringOrNull),
   order |-> Req(TNumber), isArchived |-> Req(TBoolean),
   createdAt |-> Req(TString), updatedAt |-> Req(TStringOrDate)]

Space ==
  [id |-> Req(TString), userId |-> Req(TString), name |-> Req(TString),
   icon |-> Opt(TStringOrNull), color |-> Opt(TStringOrNull),
   order |-> Req(TNumber), isArchived |-> Req(TBoolean),
   createdAt |-> Req(TStringOrDate), updatedAt |-> Req(TStringOrDate)]

Group ==
  [id |-> Req(TString), userId |-> Req(TString), spaceId |-> Req(TString),
   name |-> Req(TString), icon |-> Opt(TStringOrNull),
   order |-> Req(TNumber), isArchived |-> Req(TBoolean),
   createdAt |-> Req(TStringOrDate), updatedAt |-> Req(TStringOrDate)]

Bookmark ==
  [id |-> Req(TString), userId |-> Req(TString), spaceId |-> Req(TString),
   groupId |-> Req(TString), title |-> Req(TString), url |-> Req(TString),
   faviconUrl |-> Opt(TStringOrNull), description |-> Opt(TStringOrNull),
   order |-> Req(TNumber), isPinned |-> Req(TBoolean),
   isArchived |-> Req(TBoolean),
   createdAt |-> Req(TStringOrDate), updatedAt |-> Req(TStringOrDate)]

\* { success: boolean }, { id: string }, { hasServerData: boolean }
Success == [success |-> Req(TBoolean)]
UserId == [id |-> Req(TString)]
ServerData == [hasServerData |-> Req(TBoolean)]

\* the record with no field
NoFields == [f \in {} |-> Req(TString)]

\* query: () => Promise<out>
Query(out) == [mode |-> "query", hasInput |-> FALSE, input |-> NoFields, output |-> out]
\* mutate: (input: in) => Promise<out>
Mutate(in, out) == [mode |-> "mutate", hasInput |-> TRUE, input |-> in, output |-> out]
\* Promise<T> and Promise<T[]>
One(shape) == [array |-> FALSE, shape |-> shape]
ArrayOf(shape) == [array |-> TRUE, shape |-> shape]

IdOnly == [id |-> Req(TString)]

spaces_list == Query(ArrayOf(Space))

\* variant of spaces.create whose icon is required
spaces_create_icon_required ==
  Mutate([id |-> Req(TString), name |-> Req(TString),
          icon |-> Req(TStringOrNull), color |-> Opt(TStringOrNull),
          order |-> Req(TNumber)],
         One(Space))

spaces_create ==
  Mutate([id |-> Req(TString), name |-> Req(TString),
          icon |-> Opt(TStringOrNull), color |-> Opt(TStringOrNull),
          order |-> Req(TNumber)],
         One(Space))

\* variant of spaces.update whose icon cannot be cleared with null
spaces_update_icon_not_nullable ==
  Mutate([id |-> Req(TString), name |-> Opt(TString),
          icon |-> Opt(TString), color |-> Opt(TStringOrNull),
          isArchived |-> Opt(TBoolean)],
         One(Space))

spaces_update ==
  Mutate([id |-> Req(TString), name |-> Opt(TString),
          icon |-> Opt(TStringOrNull), color |-> Opt(TStringOrNull),
          isArchived |-> Opt(TBoolean)],
         One(Space))

spaces_delete == Mutate(IdOnly, One(Success))

spaces_reorder == Mutate([orderedIds |-> Req(TStringArray)], One(Success))

groups_list == Query(ArrayOf(Group))

groups_create ==
  Mutate([id |-> Req(TString), spaceId |-> Req(TString), name |-> Req(TString),
          icon |-> Opt(TStringOrNull), order |-> Req(TNumber)],
         One(Group))

\* variant of groups.update whose name is required
groups_update_name_required ==
  Mutate([id |-> Req(TString), name |-> Req(TString),
          icon |-> Opt(TStringOrNull), spaceId |-> Opt(TString),
          isArchived |-> Opt(TBoolean)],
         One(Group))

groups_update ==
  Mutate([id |-> Req(TString), name |-> Opt(TString),
          icon |-> Opt(TStringOrNull), spaceId |-> Opt(TString),
          isArchived |-> Opt(TBoolean)],
         One(Group))

groups_delete == Mutate(IdOnly, One(Success))

\* variant of groups.reorder whose scope is optional
groups_reorder_spaceId_optional ==
  Mutate([spaceId |-> Opt(TString), orderedIds |-> Req(TStringArray)],
         One(Success))

groups_reorder ==
  Mutate([spaceId |-> Req(TString), orderedIds |-> Req(TStringArray)],
         One(Success))

bookmarks_list == Query(ArrayOf(Bookmark))

\* variant of bookmarks.create that declares faviconUrl, as bookmarks.update does
bookmarks_create_with_faviconUrl ==
  Mutate([id |-> Req(TString), spaceId |-> Req(TString), groupId |-> Req(TString),
          title |-> Req(TString), url |-> Req(TString),
          description |-> Opt(TStringOrNull), faviconUrl |-> Opt(TStringOrNull),
          order |-> Req(TNumber)],
         One(Bookmark))

bookmarks_create ==
  Mutate([id |-> Req(TString), spaceId |-> Req(TString), groupId |-> Req(TString),
          title |-> Req(TString), url |-> Req(TString),
          description |-> Opt(TStringOrNull), order |-> Req(TNumber)],
         One(Bookmark))

bookmarks_update ==
  Mutate([id |-> Req(TString), title |-> Opt(TString), url |-> Opt(TString),
          description |-> Opt(TStringOrNull), faviconUrl |-> Opt(TStringOrNull),
          groupId |-> Opt(TString), spaceId |-> Opt(TString),
          isPinned |-> Opt(TBoolean), isArchived |-> Opt(TBoolean)],
         One(Bookmark))

bookmarks_delete == Mutate(IdOnly, One(Success))

bookmarks_reorder ==
  Mutate([groupId |-> Req(TString), orderedIds |-> Req(TStringArray)],
         One(Success))

\* variant of bookmarks.move whose spaceId is optional, as in bookmarks.update
bookmarks_move_spaceId_optional ==
  Mutate([id |-> Req(TString), groupId |-> Req(TString), spaceId |-> Opt(TString)],
         One(Bookmark))

bookmarks_move ==
  Mutate([id |-> Req(TString), groupId |-> Req(TString), spaceId |-> Req(TString)],
         One(Bookmark))

sync_ensureUser ==
  Mutate([email |-> Opt(TString), name |-> Opt(TString), avatarUrl |-> Opt(TString)],
         One(UserId))

sync_status == Query(One(ServerData))

AppRouter ==
  [spaces |-> [list |-> spaces_list, create |-> spaces_create,
               update |-> spaces_update, delete |-> spaces_delete,
               reorder |-> spaces_reorder],
   groups |-> [list |-> groups_list, create |-> groups_create,
               update |-> groups_update, delete |-> groups_delete,
               reorder |-> groups_reorder],
   bookmarks |-> [list |-> bookmarks_list, create |-> bookmarks_create,
                  update |-> bookmarks_update, delete |-> bookmarks_delete,
                  reorder |-> bookmarks_reorder, move |-> bookmarks_move],
   sync |-> [ensureUser |-> sync_ensureUser, status |-> sync_status]]

(* ---------------------------------------------------------------------- *)
(* Type checking.                                                           *)
(* ---------------------------------------------------------------------- *)

\* a value of kind k inhabits a declared type
Admits(kinds, k) == k \in kinds \/ (k = "null" /\ ~strict)

\* structural assignability of an object value to an object type: every
\* declared field is either present with an admitted kind, or absent and
\* optional; fields the type does not declare are ignored
Assignable(v, shape) ==
  \A f \in DOMAIN shape :
    IF f \in DOMAIN v THEN Admits(shape[f].kinds, v[f]) ELSE ~shape[f].req

\* the excess-property check tsc applies to an object literal
NoExcess(v, shape) == DOMAIN v \subseteq DOMAIN shape

\* does the call op(arg) type-check; isFresh: the argument is written as an
\* object literal at the call site
Accepts(op, given, isFresh, v) ==
  IF op.hasInput
    THEN given /\ Assignable(v, op.input) /\ (isFresh => NoExcess(v, op.input))
    ELSE ~given

\* does a handler result type-check against the declared output; results are
\* rows read back from storage, never object literals
Returns(res, out) ==
  /\ res.isArray = out.array
  /\ (~res.isArray => Len(res.items) = 1)
  /\ \A i \in DOMAIN res.items : Assignable(res.items[i], out.shape)

(* ---------------------------------------------------------------------- *)
(* The values a caller or a handler can write.                              *)
(* ---------------------------------------------------------------------- *)

\* the kind of value a program puts in a field of that name
FieldKind ==
  [id |-> "string", userId |-> "string", spaceId |-> "string",
   groupId |-> "string", name |-> "string", icon |-> "string",
   color |-> "string", title |-> "string", url |-> "string",
   faviconUrl |-> "string", description |-> "string",
   order |-> "number", isPinned |-> "boolean", isArchived |-> "boolean",
   createdAt |-> "string", updatedAt |-> "string",
   orderedIds |-> "strings", email |-> "string", avatarUrl |-> "string",
   success |-> "boolean", hasServerData |-> "boolean"]

Stamps == {"createdAt", "updatedAt"}

\* the entity a namespace is about
EntityFields(ns) ==
  CASE ns = "spaces" -> DOMAIN Space
    [] ns = "groups" -> DOMAIN Group
    [] ns = "bookmarks" -> DOMAIN Bookmark
    [] OTHER -> {}

\* an object with the fields D, those of N holding null
Obj(D, N) == [f \in D |-> IF f \in N THEN "null" ELSE FieldKind[f]]

\* a call argument names any of the declared fields and at most one field of
\* the entity that the input does not declare
ExtraChoices(ns, op) ==
  {{}} \cup {{e} : e \in EntityFields(ns) \ DOMAIN op.input}

\* the subsets of S with at most k elements
RECURSIVE KSubsets(_, _)
KSubsets(S, k) ==
  IF k = 0 THEN {{}}
  ELSE LET smaller == KSubsets(S, k - 1)
       IN smaller \cup {T \cup {x} : T \in smaller, x \in S}

\* the ways one field of one element of an n-element array can depart from a
\* fully populated row
Oddities(n, F) ==
  {<<i, f, "absent">> : i \in 1..n, f \in F}
    \cup {<<i, f, "null">> : i \in 1..n, f \in F}
    \cup {<<i, f, "date">> : i \in 1..n, f \in F \cap Stamps}

OddSets(n, F) ==
  {P \in KSubsets(Oddities(n, F), MaxOdd) :
     \A p \in P, q \in P : (p[1] = q[1] /\ p[2] = q[2]) => p = q}

Row(i, F, P) ==
  [f \in {g \in F : <<i, g, "absent">> \notin P} |->
     IF <<i, f, "null">> \in P THEN "null"
     ELSE IF <<i, f, "date">> \in P THEN "date"
     ELSE FieldKind[f]]

\* what a handler of the namespace may hand back: rows of its entity, or one of
\* the flag objects
ResultFields(ns) ==
  ({EntityFields(ns)} \cup {DOMAIN Success, DOMAIN UserId, DOMAIN ServerData})
    \ {{}}

NoPath == [ns |-> "none", proc |-> "none"]
NoValue == [f \in {} |-> "string"]
NoResult == [isArray |-> FALSE, items |-> <<>>]

(* ---------------------------------------------------------------------- *)
(* The call cycle.                                                          *)
(* ---------------------------------------------------------------------- *)

Init ==
  /\ pc = "idle"
  /\ path = NoPath
  /\ hasArg = FALSE
  /\ fresh = FALSE
  /\ input = NoValue
  /\ accepted = FALSE
  /\ result = NoResult
  /\ resultOk = FALSE

\* a call site names a procedure and, maybe, an argument; tsc checks it
Call(ns, proc) ==
  /\ pc = "idle"
  /\ \E given \in BOOLEAN, isFresh \in BOOLEAN :
       \E X \in ExtraChoices(ns, AppRouter[ns][proc]) :
         \E D \in SUBSET (DOMAIN AppRouter[ns][proc].input) :
           \E N \in SUBSET D :
             /\ (~given => (D = {} /\ X = {} /\ ~isFresh))
             /\ hasArg' = given
             /\ fresh' = isFresh
             /\ input' = Obj(D \cup X, N)
             /\ accepted' = Accepts(AppRouter[ns][proc], given, isFresh, input')
  /\ pc' = "called"
  /\ path' = [ns |-> ns, proc |-> proc]
  /\ UNCHANGED <<result, resultOk>>

spaces_list_query == Call("spaces", "list")
spaces_create_mutate == Call("spaces", "create")
spaces_update_mutate == Call("spaces", "update")
spaces_delete_mutate == Call("spaces", "delete")
spaces_reorder_mutate == Call("spaces", "reorder")
groups_list_query == Call("groups", "list")
groups_create_mutate == Call("groups", "create")
groups_update_mutate == Call("groups", "update")
groups_delete_mutate == Call("groups", "delete")
groups_reorder_mutate == Call("groups", "reorder")
bookmarks_list_query == Call("bookmarks", "list")
bookmarks_create_mutate == Call("bookmarks", "create")
bookmarks_update_mutate == Call("bookmarks", "update")
bookmarks_delete_mutate == Call("bookmarks", "delete")
bookmarks_reorder_mutate == Call("bookmarks", "reorder")
bookmarks_move_mutate == Call("bookmarks", "move")
sync_ensureUser_mutate == Call("sync", "ensureUser")
sync_status_query == Call("sync", "status")

\* a call that does not type-check is never made
Reject ==
  /\ pc = "called"
  /\ ~accepted
  /\ pc' = "idle"
  /\ path' = NoPath
  /\ hasArg' = FALSE
  /\ fresh' = FALSE
  /\ input' = NoValue
  /\ accepted' = FALSE
  /\ UNCHANGED <<result, resultOk>>

\* a call that type-checks goes out; the promise is pending
Send ==
  /\ pc = "called"
  /\ accepted
  /\ pc' = "pending"
  /\ hasArg' = FALSE
  /\ fresh' = FALSE
  /\ input' = NoValue
  /\ UNCHANGED <<path, accepted, result, resultOk>>

\* the handler's result, checked against the declared output
Resolve ==
  /\ pc = "pending"
  /\ \E F \in ResultFields(path.ns), arr \in BOOLEAN :
       \E n \in (IF arr THEN 0..MaxList ELSE {1}) :
         \E P \in OddSets(n, F) :
           /\ result' = [isArray |-> arr, items |-> [i \in 1..n |-> Row(i, F, P)]]
           /\ resultOk' = Returns(result', AppRouter[path.ns][path.proc].output)
  /\ pc' = "returned"
  /\ UNCHANGED <<path, hasArg, fresh, input, accepted>>

\* the caller has its value
Settle ==
  /\ pc = "returned"
  /\ pc' = "idle"
  /\ path' = NoPath
  /\ accepted' = FALSE
  /\ result' = NoResult
  /\ resultOk' = FALSE
  /\ UNCHANGED <<hasArg, fresh, input>>

Next ==
  \/ spaces_list_query
  \/ spaces_create_mutate
  \/ spaces_update_mutate
  \/ spaces_delete_mutate
  \/ spaces_reorder_mutate
  \/ groups_list_query
  \/ groups_create_mutate
  \/ groups_update_mutate
  \/ groups_delete_mutate
  \/ groups_reorder_mutate
  \/ bookmarks_list_query
  \/ bookmarks_create_mutate
  \/ bookmarks_update_mutate
  \/ bookmarks_delete_mutate
  \/ bookmarks_reorder_mutate
  \/ bookmarks_move_mutate
  \/ sync_ensureUser_mutate
  \/ sync_status_query
  \/ Reject
  \/ Send
  \/ Resolve
  \/ Settle

Spec == Init /\ [][Next]_vars


(* ---------------------------------------------------------------------- *)
(* Properties.                                                              *)
(* ---------------------------------------------------------------------- *)

\* the argument of a call to ns.proc has just been checked
At(ns, proc) == pc = "called" /\ path = [ns |-> ns, proc |-> proc]

\* the result of a call to ns.proc has just been checked
Back(ns, proc) == pc = "returned" /\ path = [ns |-> ns, proc |-> proc]

NoNull(v) == \A f \in DOMAIN v : v[f] # "null"

Families == {"spaces", "groups", "bookmarks"}

\* the entity type the spec names for a namespace
EntityOf(ns) ==
  CASE ns = "spaces" -> Space
    [] ns = "groups" -> Group
    [] ns = "bookmarks" -> Bookmark

\* the required create fields, as the spec lists them
CreateRequired(ns) ==
  CASE ns = "spaces" -> {"id", "name", "order"}
    [] ns = "groups" -> {"id", "name", "order", "spaceId"}
    [] ns = "bookmarks" -> {"id", "spaceId", "groupId", "title", "url", "order"}

\* the fields an update may change, as the spec lists them
UpdateOptional(ns) ==
  CASE ns = "spaces" -> {"name", "icon", "color", "isArchived"}
    [] ns = "groups" -> {"name", "icon", "spaceId", "isArchived"}
    [] ns = "bookmarks" -> {"title", "url", "description", "faviconUrl",
                            "groupId", "spaceId", "isPinned", "isArchived"}

\* the update fields that can be cleared
UpdateNullable(ns) ==
  CASE ns = "spaces" -> {"icon", "color"}
    [] ns = "groups" -> {"icon"}
    [] ns = "bookmarks" -> {"description", "faviconUrl"}

MoveFields == {"id", "groupId", "spaceId"}

\* C2: bookmarks.move accepts an input that carries id, groupId and spaceId,
\* rejects every input that lacks any one of the three, and a result that
\* type-checks is a single Bookmark.
C2_MoveShape ==
  /\ At("bookmarks", "move") =>
       /\ (hasArg /\ DOMAIN input = MoveFields /\ NoNull(input)) => accepted
       /\ (\E f \in MoveFields : f \notin DOMAIN input) => ~accepted
  /\ (Back("bookmarks", "move") /\ resultOk) =>
       /\ ~result.isArray
       /\ Len(result.items) = 1
       /\ Assignable(result.items[1], Bookmark)

C2_Witness ==
  /\ At("bookmarks", "move")
  /\ fresh
  /\ input = [id |-> "string", groupId |-> "string", spaceId |-> "string"]
  /\ accepted

\* C4: each create accepts an input holding exactly its required fields (no
\* optional one) and rejects an input that omits any required field; the
\* required fields are id, name, order for spaces, those and spaceId for
\* groups, and id, spaceId, groupId, title, url, order for bookmarks.
C4_CreateRequired ==
  \A ns \in Families :
    At(ns, "create") =>
      /\ (hasArg /\ DOMAIN input = CreateRequired(ns) /\ NoNull(input)) => accepted
      /\ (\E f \in CreateRequired(ns) : f \notin DOMAIN input) => ~accepted

C4_Witness ==
  /\ At("spaces", "create")
  /\ fresh
  /\ input = [id |-> "string", name |-> "string", order |-> "number"]
  /\ accepted

\* C5 as stated: bookmarks.create accepts title, url, description and
\* faviconUrl in its input, together with the required parents.
C5_AsStated ==
  (/\ At("bookmarks", "create")
   /\ hasArg
   /\ CreateRequired("bookmarks") \subseteq DOMAIN input
   /\ DOMAIN input \subseteq CreateRequired("bookmarks") \cup {"description", "faviconUrl"}
   /\ NoNull(input))
    => accepted

\* C5, amended: bookmarks.create accepts title, url and description together
\* with the required parents spaceId and groupId; it does not declare
\* faviconUrl, and an object-literal input that carries faviconUrl is rejected.
C5_CreateFields ==
  (/\ At("bookmarks", "create")
   /\ hasArg
   /\ CreateRequired("bookmarks") \subseteq DOMAIN input
   /\ \A f \in CreateRequired("bookmarks") : input[f] # "null")
    => /\ DOMAIN input \subseteq CreateRequired("bookmarks") \cup {"description"}
            => accepted
       /\ (fresh /\ "faviconUrl" \in DOMAIN input) => ~accepted

C5_Witness ==
  /\ At("bookmarks", "create")
  /\ fresh
  /\ DOMAIN input = CreateRequired("bookmarks") \cup {"faviconUrl"}
  /\ NoNull(input)
  /\ ~accepted

\* C6: each update accepts an input holding only id, accepts id with any
\* subset of the other fields, and rejects an input without id.
C6_UpdatePartial ==
  \A ns \in Families :
    At(ns, "update") =>
      /\ (/\ hasArg
          /\ "id" \in DOMAIN input
          /\ DOMAIN input \subseteq {"id"} \cup UpdateOptional(ns)
          /\ NoNull(input))
           => accepted
      /\ "id" \notin DOMAIN input => ~accepted

C6_Witness ==
  /\ At("bookmarks", "update")
  /\ fresh
  /\ input = [id |-> "string"]
  /\ accepted

\* the single object { success: boolean }
IsSuccessFlag(res) ==
  /\ ~res.isArray
  /\ Len(res.items) = 1
  /\ "success" \in DOMAIN res.items[1]
  /\ res.items[1]["success"] = "boolean"

ReorderScope(ns) ==
  CASE ns = "spaces" -> {}
    [] ns = "groups" -> {"spaceId"}
    [] ns = "bookmarks" -> {"groupId"}

\* C7: a reorder input names its scope together with the ordered ids:
\* groups.reorder needs spaceId and orderedIds and rejects orderedIds alone,
\* bookmarks.reorder needs groupId and orderedIds, spaces.reorder needs only
\* orderedIds; each returns a success flag.
C7_ReorderScope ==
  \A ns \in Families :
    /\ At(ns, "reorder") =>
         /\ accepted => (ReorderScope(ns) \cup {"orderedIds"}) \subseteq DOMAIN input
         /\ (/\ hasArg
             /\ DOMAIN input = ReorderScope(ns) \cup {"orderedIds"}
             /\ NoNull(input))
              => accepted
         /\ (ns # "spaces" /\ DOMAIN input = {"orderedIds"}) => ~accepted
    /\ Back(ns, "reorder") =>
         /\ resultOk => IsSuccessFlag(result)
         /\ result = [isArray |-> FALSE, items |-> <<[success |-> "boolean"]>>]
              => resultOk

C7_Witness ==
  /\ At("groups", "reorder")
  /\ input = [orderedIds |-> "strings"]
  /\ ~accepted

\* C8 as stated: every optional field of an update input may be absent,
\* null or a value, in any combination.
C8_AsStated ==
  \A ns \in Families :
    (/\ At(ns, "update")
     /\ hasArg
     /\ "id" \in DOMAIN input
     /\ input["id"] # "null"
     /\ DOMAIN input \subseteq {"id"} \cup UpdateOptional(ns))
      => accepted

\* C8, amended: an optional field of an update input has the three accepted
\* states absent, null and value only where it is declared nullable (icon and
\* color of spaces.update, icon of groups.update, description and faviconUrl
\* of bookmarks.update); every other optional field is accepted absent or
\* with a value, and rejected when null.
C8_ThreeStates ==
  \A ns \in Families :
    (/\ At(ns, "update")
     /\ hasArg
     /\ "id" \in DOMAIN input
     /\ input["id"] # "null"
     /\ DOMAIN input \subseteq {"id"} \cup UpdateOptional(ns))
      => (accepted <=>
            \A f \in DOMAIN input : input[f] = "null" => f \in UpdateNullable(ns))

C8_Witness ==
  /\ At("spaces", "update")
  /\ input = [id |-> "string", name |-> "string", icon |-> "null"]
  /\ accepted

\* the operations that return entity values
EntityProcs(ns) ==
  IF ns = "bookmarks" THEN {"list", "create", "update", "move"}
  ELSE {"list", "create", "update"}

\* every field of the entity present and none null
FullRow(v, ns) == DOMAIN v = DOMAIN EntityOf(ns) /\ NoNull(v)

\* C9: a value returned by list, create or update (and bookmarks.move) that
\* type-checks satisfies the shape of its entity, and a fully populated
\* entity is accepted with createdAt and updatedAt each textual or a native
\* date, in any combination.
C9_EntityShape ==
  \A ns \in Families :
    (pc = "returned" /\ path.ns = ns /\ path.proc \in EntityProcs(ns)) =>
      /\ resultOk =>
           /\ result.isArray = (path.proc = "list")
           /\ \A i \in DOMAIN result.items : Assignable(result.items[i], EntityOf(ns))
      /\ (/\ result.isArray = (path.proc = "list")
          /\ \A i \in DOMAIN result.items : FullRow(result.items[i], ns))
           => resultOk

C9_Witness ==
  /\ Back("spaces", "list")
  /\ result.isArray
  /\ Len(result.items) = 1
  /\ FullRow(result.items[1], "spaces")
  /\ result.items[1]["createdAt"] = "date"
  /\ result.items[1]["updatedAt"] = "string"
  /\ resultOk

====
